---- MODULE Spec2Model ----
(***************************************************************************)
(* Neuron dashboard.                                                       *)
(*                                                                         *)
(* Two variants of the dashboard live in the repository:                   *)
(*   - the live-fetch dashboard (neuron-dashboard/src/App.jsx), which      *)
(*     polls the Neuron-Core backend and folds the four responses of a     *)
(*     poll into one view model (`data`);                                  *)
(*   - the context-based dashboard (context/NeuronContext.tsx and the      *)
(*     components that read it, e.g. components/pipeline/TaskPipeline.tsx) *)
(*     which works on mock data.                                           *)
(* Spec is the live-fetch dashboard, CtxSpec the context-based one.        *)
(* ActSpec (backend actions), TeardownSpec (polling up to teardown),       *)
(* LifeSpec (the two interval timers), SimSpec (provider simulation),      *)
(* RetrySpec (agent controls over any agent list) and LogsSpec (the Logs   *)
(* page over any log list) cover one part of the program each.             *)
(*                                                                         *)
(* The model covers the state hooks, the effects and the handlers of the   *)
(* components: what they do to the state once they run.                    *)
(***************************************************************************)
EXTENDS Integers, Sequences, FiniteSets, TLC

VARIABLES
    data,        \* App.jsx: the view model held by useState (lines 10-25)
    loading,     \* App.jsx: the identifier `loading` read by the render (line 134)
    error,       \* App.jsx: the identifier `error` read by the render (line 143)
    timer,       \* App.jsx: the 5 s interval of the polling effect (lines 91-95)
    polls,       \* App.jsx: the calls of fetchState, in the order they started
    last,        \* history: the call of fetchState that finished most recently
    lastApplied, \* history: the call of fetchState whose setData ran most recently
    mounted,     \* App.jsx: the life of the NeuronDashboard component ("no", "yes", "torn")
    calls,       \* App.jsx: the calls of handleSetProject, handleAnalyze, handleAction
    alerts,      \* App.jsx: the alert() dialogs shown so far
    agents,      \* NeuronContext.tsx: useState<Agent[]> (line 85)
    activeProject, \* NeuronContext.tsx: useState<Project | null> (line 87)
    pipeline,    \* TaskPipeline.tsx: what the last render of TaskPipeline drew
    tasks,       \* NeuronContext.tsx: useState<Task[]> (line 86)
    logs,        \* NeuronContext.tsx: useState<LogEntry[]> (line 88)
    fileChanges, \* NeuronContext.tsx: useState<FileChange[]> (line 89)
    metrics,     \* NeuronContext.tsx: useState<UsageMetrics> (line 90)
    provider,    \* NeuronContext.tsx: the life of NeuronProvider ("no", "yes", "torn")
    simTimer,    \* NeuronContext.tsx: the 2 s interval of the simulation effect (lines 93-103)
    simTicks,    \* history: how often the simulation interval has fired
    toggleCount, \* history: the calls of toggleAgentEnabled so far, by agent id
    lastOp,      \* history: the context operation that ran most recently
    logsPage,    \* Logs.tsx: the filter held by useState and what the last render drew
    site,        \* which test project runs: "core" (Neuron-Core/testproject) or "test" (testproject)
    form,        \* LoginForm / Login: the email, password and error state hooks
    request,     \* the POST of the login route in flight
    reply,       \* what the awaited POST has settled with, before the form reads it
    answered,    \* history: the request the login controller handled last and its responses
    localStorage, \* the token item of window.localStorage
    logins       \* history: the login requests sent so far

\* the state of the handlers of the backend actions
actVars == <<calls, alerts>>

dashVars == <<data, loading, error, timer, polls, last, lastApplied, mounted, actVars>>

\* the context state that has no setter
fixedVars == <<tasks, logs, fileChanges, metrics>>

\* the simulation effect of the provider
simVars == <<provider, simTimer, simTicks>>

ctxVars ==
    <<agents, activeProject, pipeline, fixedVars, simVars, toggleCount, lastOp, logsPage>>

\* the login demo of the test projects
loginVars == <<site, form, request, reply, answered, localStorage, logins>>

vars == <<dashVars, ctxVars, loginVars>>

(***************************************************************************)
(* Bounds                                                                  *)
(***************************************************************************)
\* calls of fetchState in one behaviour
MaxPolls == 2

\* calls of the handlers of the backend actions in one behaviour
MaxActions == 2

\* firings of the simulation interval in one behaviour
MaxTicks == 2

\* calls of toggleAgentEnabled per agent id in one behaviour
MaxToggles == 2

\* length of the log lists the Logs page is rendered with
MaxLogs == 3

\* login requests in one behaviour
MaxLogins == 2

(***************************************************************************)
(* JavaScript values                                                       *)
(***************************************************************************)
\* an optional field of a JSON body: absent (undefined) or present
None == <<>>
Some(v) == <<v>>

\* JavaScript null, for data.project
Null == "null"

\* the value of a name that has no binding in scope (reading it throws a
\* ReferenceError); a bound name holds Some(value)
Unbound == <<>>

\* `o || d` for an optional array or object: arrays and objects are truthy, even
\* when empty; undefined is falsy
OrElse(o, d) == IF o # None THEN o[1] ELSE d

(***************************************************************************)
(* The view model                                                          *)
(***************************************************************************)
InitMetrics ==
    [tokensUsed |-> 0, apiCalls |-> 0, estimatedCost |-> 0, avgTaskTime |-> 0,
     agentFailureRate |-> 0]

InitData ==
    [hasProject |-> FALSE, project |-> Null, projects |-> <<>>,
     metrics |-> InitMetrics, activities |-> <<>>, agents |-> <<>>,
     systemStatus |-> "offline", lastAction |-> "Never"]

\* the state hooks the component declares; `loading`/`setLoading` and
\* `error`/`setError` are used by fetchState and by the render but no useState
\* declares them
StateHooks == {"expandedActivity", "showAgents", "data"}

Bound(name) == name \in StateHooks

ConnectError == "Could not connect to Neuron backend"

(***************************************************************************)
(* Backend responses (the inputs of a poll)                                *)
(***************************************************************************)
FeatAuth == [feature |-> "Add auth", files |-> Some(<<"a.ts", "b.ts">>), timestamp |-> Some("2m ago")]
FeatFix == [feature |-> "Fix bug", files |-> None, timestamp |-> None]

MetricsA ==
    [tokensUsed |-> 1200, apiCalls |-> 7, estimatedCost |-> 3, avgTaskTime |-> 40,
     agentFailureRate |-> 1]
MetricsB ==
    [tokensUsed |-> 90, apiCalls |-> 2, estimatedCost |-> 1, avgTaskTime |-> 12,
     agentFailureRate |-> 0]

\* bodies of /dashboard-state: {status, has_project, project, features[], metrics}
StateFull ==
    [status |-> "success", has_project |-> TRUE, project |-> "alpha",
     features |-> Some(<<FeatAuth, FeatFix>>), metrics |-> Some(MetricsA)]
StateBare ==
    [status |-> "success", has_project |-> FALSE, project |-> Null,
     features |-> None, metrics |-> None]
StateError ==
    [status |-> "error", has_project |-> TRUE, project |-> "beta",
     features |-> Some(<<FeatAuth>>), metrics |-> Some(MetricsB)]
StateBodies == {StateFull, StateBare, StateError}

\* a success body whose last feature carries a timestamp
StateRecent ==
    [status |-> "success", has_project |-> TRUE, project |-> "alpha",
     features |-> Some(<<FeatFix, FeatAuth>>), metrics |-> None]

\* bodies of /agents/status: {agents: [{name, status, currentAction}]}
AgentArchitect == [name |-> "Architect", status |-> "idle", currentAction |-> "Waiting"]
AgentBuilder == [name |-> "Builder", status |-> "working", currentAction |-> "Building"]
AgentsBodies ==
    {[agents |-> Some(<<AgentArchitect, AgentBuilder>>)], [agents |-> Some(<<>>)],
     [agents |-> None]}

\* bodies of /list-projects: {data: [{path, name}]}
ProjectAlpha == [path |-> "/srv/alpha", name |-> "alpha"]
ProjectsBodies == {[data |-> Some(<<ProjectAlpha>>)], [data |-> None]}

\* how the fetch of /health settles: rejected (network error), or a response
\* whose ok flag says whether the HTTP status was 2xx
HealthOutcomes ==
    {[rejected |-> TRUE, ok |-> FALSE], [rejected |-> FALSE, ok |-> TRUE],
     [rejected |-> FALSE, ok |-> FALSE]}

\* HealthCatch with a catch handler that reports the backend as reachable
HealthCatch_Online(o) == IF o.rejected THEN [ok |-> TRUE] ELSE [ok |-> o.ok]

\* fetch(`/health`).catch(() => ({ ok: false }))
HealthCatch(o) == IF o.rejected THEN [ok |-> FALSE] ELSE [ok |-> o.ok]

\* the three requests whose rejection rejects Promise.all
JsonRequests == {"dashboard-state", "agents/status", "list-projects"}

(***************************************************************************)
(* fetchState: from the responses to the view model                        *)
(***************************************************************************)
\* `f.timestamp || "Just now"`: undefined and the empty string are falsy
TimestampOr(o, d) == IF o # None /\ o[1] # "" THEN o[1] ELSE d

\* the record features.map builds for the feature at zero-based index i
ActivityOf(f, i) ==
    [id |-> i, request |-> f.feature, status |-> "success",
     filesChanged |-> IF f.files # None THEN Len(f.files[1]) ELSE 0,
     duration |-> "N/A", timestamp |-> TimestampOr(f.timestamp, "Just now"),
     agents |-> <<"Orchestrator">>, files |-> OrElse(f.files, <<>>),
     safetyChecks |-> <<"Verified">>]

\* Array.prototype.reverse
Reverse(s) == [k \in 1..Len(s) |-> s[Len(s) + 1 - k]]

\* ActivitiesOf without the reverse
ActivitiesOf_Unreversed(stateData) ==
    IF stateData.features # None
    THEN [k \in 1..Len(stateData.features[1]) |->
            ActivityOf(stateData.features[1][k], k - 1)]
    ELSE <<>>

\* stateData.features ? stateData.features.map(...).reverse() : []
ActivitiesOf(stateData) ==
    IF stateData.features # None
    THEN Reverse([k \in 1..Len(stateData.features[1]) |->
                    ActivityOf(stateData.features[1][k], k - 1)])
    ELSE <<>>

\* Applies without the status test
Applies_Always(stateData) == TRUE

\* if (stateData.status === 'success')
Applies(stateData) == stateData.status = "success"

\* fetchedView that falls back to the previous project list
fetchedView_KeepProjects(prev, stateData, agentsData, projectsData, healthRes) ==
    LET activities == ActivitiesOf(stateData) IN
    [hasProject |-> stateData.has_project,
     project |-> stateData.project,
     projects |-> OrElse(projectsData.data, prev.projects),
     metrics |-> OrElse(stateData.metrics, prev.metrics),
     activities |-> activities,
     agents |-> OrElse(agentsData.agents, prev.agents),
     systemStatus |-> IF healthRes.ok THEN "online" ELSE "offline",
     lastAction |-> IF Len(activities) > 0 THEN activities[1].timestamp ELSE "Never"]

\* fetchedView that appends the fetched agents to the previous ones
fetchedView_MergeAgents(prev, stateData, agentsData, projectsData, healthRes) ==
    LET activities == ActivitiesOf(stateData) IN
    [hasProject |-> stateData.has_project,
     project |-> stateData.project,
     projects |-> OrElse(projectsData.data, <<>>),
     metrics |-> OrElse(stateData.metrics, prev.metrics),
     activities |-> activities,
     agents |-> prev.agents \o OrElse(agentsData.agents, <<>>),
     systemStatus |-> IF healthRes.ok THEN "online" ELSE "offline",
     lastAction |-> IF Len(activities) > 0 THEN activities[1].timestamp ELSE "Never"]

\* fetchedView that ignores the health check
fetchedView_AlwaysOnline(prev, stateData, agentsData, projectsData, healthRes) ==
    LET activities == ActivitiesOf(stateData) IN
    [hasProject |-> stateData.has_project,
     project |-> stateData.project,
     projects |-> OrElse(projectsData.data, <<>>),
     metrics |-> OrElse(stateData.metrics, prev.metrics),
     activities |-> activities,
     agents |-> OrElse(agentsData.agents, prev.agents),
     systemStatus |-> "online",
     lastAction |-> IF Len(activities) > 0 THEN activities[1].timestamp ELSE "Never"]

\* fetchedView that takes lastAction from the last activity of the list
fetchedView_OldestAction(prev, stateData, agentsData, projectsData, healthRes) ==
    LET activities == ActivitiesOf(stateData) IN
    [hasProject |-> stateData.has_project,
     project |-> stateData.project,
     projects |-> OrElse(projectsData.data, <<>>),
     metrics |-> OrElse(stateData.metrics, prev.metrics),
     activities |-> activities,
     agents |-> OrElse(agentsData.agents, prev.agents),
     systemStatus |-> IF healthRes.ok THEN "online" ELSE "offline",
     lastAction |-> IF Len(activities) > 0 THEN activities[Len(activities)].timestamp
                    ELSE "Never"]

\* the updater handed to setData
fetchedView(prev, stateData, agentsData, projectsData, healthRes) ==
    LET activities == ActivitiesOf(stateData) IN
    [hasProject |-> stateData.has_project,
     project |-> stateData.project,
     projects |-> OrElse(projectsData.data, <<>>),
     metrics |-> OrElse(stateData.metrics, prev.metrics),
     activities |-> activities,
     agents |-> OrElse(agentsData.agents, prev.agents),
     systemStatus |-> IF healthRes.ok THEN "online" ELSE "offline",
     lastAction |-> IF Len(activities) > 0 THEN activities[1].timestamp ELSE "Never"]

\* the catch block: console.error, setError(...), setLoading(false); the result
\* is the value of loading and error afterwards and whether the block threw
CatchBlock(ld, er) ==
    IF ~Bound("error") THEN [loading |-> ld, error |-> er, uncaught |-> TRUE]
    ELSE IF ~Bound("loading")
         THEN [loading |-> ld, error |-> Some(ConnectError), uncaught |-> TRUE]
         ELSE [loading |-> Some(FALSE), error |-> Some(ConnectError), uncaught |-> FALSE]

\* setLoading(false) at the end of the try block; when it throws, the catch
\* block of the same try runs
TryTail(ld, er) ==
    IF Bound("loading") THEN [loading |-> Some(FALSE), error |-> er, uncaught |-> FALSE]
    ELSE CatchBlock(ld, er)

\* what the render of NeuronDashboard returns for a view model and the values
\* of `loading` and `error`: the spinner, the full-screen connection error with
\* the Retry Connection button, or the dashboard. Reading a name without a
\* binding throws a ReferenceError, and `loading` is read first
View(d, ld, er) ==
    IF ld = Unbound THEN "ReferenceError"
    ELSE IF ld[1] /\ d.project = Null THEN "loading"
    ELSE IF er = Unbound THEN "ReferenceError"
    ELSE IF er[1] # Null /\ d.project = Null THEN "error"
    ELSE "dashboard"

(***************************************************************************)
(* Initial state                                                           *)
(***************************************************************************)
Polls == 1..MaxPolls

\* who called fetchState: the polling effect on mount, the interval, or the
\* handler of a backend action (the call of the handler is recorded)
NoCaller == [src |-> "none", call |-> 0]
ByMount == [src |-> "mount", call |-> 0]
ByTick == [src |-> "tick", call |-> 0]
ByAction(c) == [src |-> "action", call |-> c]

\* a call of fetchState: who made it, where it is, which of the three plain fetches have
\* fulfilled, what the /health promise (with its catch) resolved to and whether
\* the /health fetch itself was rejected, and how the call ended
IdlePoll ==
    [st |-> "idle", settled |-> {}, health |-> None, healthRejected |-> FALSE,
     outcome |-> "none", by |-> NoCaller]

\* the record of the call that finished most recently: the view model right
\* before it finished, the bodies it read, how it ended and whether the
\* component had been torn down by then
NoPoll ==
    [poll |-> 0, outcome |-> "none", cause |-> "none", before |-> InitData,
     stateData |-> None, agentsData |-> None, projectsData |-> None,
     healthRes |-> None, healthRejected |-> FALSE, uncaught |-> FALSE,
     torn |-> FALSE]

Calls == 1..MaxActions

\* a call of a handler of a backend action: where it is, which handler it is
\* and how it ended
IdleCall == [st |-> "idle", kind |-> "none", outcome |-> "none"]

InitDash ==
    /\ data = InitData
    /\ loading = Unbound
    /\ error = Unbound
    /\ timer = "unset"
    /\ polls = [p \in Polls |-> IdlePoll]
    /\ last = NoPoll
    /\ lastApplied = [poll |-> 0, healthOk |-> FALSE]
    /\ mounted = "no"
    /\ calls = [c \in Calls |-> IdleCall]
    /\ alerts = {}

(***************************************************************************)
(* The live-fetch dashboard: polling                                       *)
(***************************************************************************)
\* a call of fetchState up to its first await: the four fetches are issued
StartPoll(by) ==
    /\ \E p \in Polls : polls[p].st = "idle"
    /\ LET p == CHOOSE q \in Polls : polls[q].st = "idle" /\ \A r \in Polls : polls[r].st = "idle" => q <= r
       IN polls' = [polls EXCEPT ![p] = [IdlePoll EXCEPT !.st = "inflight", !.by = by]]

\* the polling effect on mount: fetchState(); setInterval(fetchState, 5000)
Mount ==
    /\ mounted = "no"
    /\ timer = "unset"
    /\ mounted' = "yes"
    /\ timer' = "running"
    /\ StartPoll(ByMount)
    /\ UNCHANGED <<data, loading, error, last, lastApplied, actVars, ctxVars, loginVars>>

\* the interval fires: fetchState()
Tick ==
    /\ timer = "running"
    /\ StartPoll(ByTick)
    /\ UNCHANGED <<data, loading, error, timer, last, lastApplied, mounted, actVars, ctxVars, loginVars>>

\* one of the three plain fetches of poll p fulfils with a response
FetchFulfils(p, r) ==
    /\ polls[p].st = "inflight"
    /\ r \in JsonRequests \ polls[p].settled
    /\ polls' = [polls EXCEPT ![p].settled = @ \cup {r}]
    /\ UNCHANGED <<data, loading, error, timer, last, lastApplied, mounted, actVars, ctxVars, loginVars>>

\* the fetch of /health of poll p settles; its .catch turns a rejection into
\* { ok: false }
HealthSettles(p, o) ==
    /\ polls[p].st = "inflight"
    /\ polls[p].health = None
    /\ polls' = [polls EXCEPT ![p].health = Some(HealthCatch(o)),
                              ![p].healthRejected = o.rejected]
    /\ UNCHANGED <<data, loading, error, timer, last, lastApplied, mounted, actVars, ctxVars, loginVars>>

\* the end of a call of fetchState
Finish(p, outcome) ==
    [polls EXCEPT ![p] = [IdlePoll EXCEPT !.st = "done", !.outcome = outcome,
                                          !.by = polls[p].by]]

\* FetchRejects with a catch block that also stops the polling interval
FetchRejects_StopsTimer(p, r) ==
    /\ polls[p].st = "inflight"
    /\ r \in JsonRequests \ polls[p].settled
    /\ LET c == CatchBlock(loading, error) IN
       /\ loading' = c.loading
       /\ error' = c.error
       /\ last' = [NoPoll EXCEPT !.poll = p, !.outcome = "failed", !.cause = r,
                                 !.before = data, !.healthRes = polls[p].health,
                                 !.healthRejected = polls[p].healthRejected,
                                 !.uncaught = c.uncaught, !.torn = mounted = "torn"]
    /\ polls' = Finish(p, "failed")
    /\ timer' = "cleared"
    /\ UNCHANGED <<data, lastApplied, mounted, actVars, ctxVars, loginVars>>

\* one of the three plain fetches of poll p rejects (network error): Promise.all
\* rejects at once, the await throws and the catch block runs
FetchRejects(p, r) ==
    /\ polls[p].st = "inflight"
    /\ r \in JsonRequests \ polls[p].settled
    /\ LET c == CatchBlock(loading, error) IN
       /\ loading' = c.loading
       /\ error' = c.error
       /\ last' = [NoPoll EXCEPT !.poll = p, !.outcome = "failed", !.cause = r,
                                 !.before = data, !.healthRes = polls[p].health,
                                 !.healthRejected = polls[p].healthRejected,
                                 !.uncaught = c.uncaught, !.torn = mounted = "torn"]
    /\ polls' = Finish(p, "failed")
    /\ UNCHANGED <<data, timer, lastApplied, mounted, actVars, ctxVars, loginVars>>

AllSettled(p) == polls[p].settled = JsonRequests /\ polls[p].health # None

\* Promise.all has fulfilled and one of the three json() calls rejects (the body
\* is not JSON): the catch block runs
JsonRejects(p) ==
    /\ polls[p].st = "inflight"
    /\ AllSettled(p)
    /\ LET c == CatchBlock(loading, error) IN
       /\ loading' = c.loading
       /\ error' = c.error
       /\ last' = [NoPoll EXCEPT !.poll = p, !.outcome = "failed", !.cause = "json",
                                 !.before = data, !.healthRes = polls[p].health,
                                 !.healthRejected = polls[p].healthRejected,
                                 !.uncaught = c.uncaught, !.torn = mounted = "torn"]
    /\ polls' = Finish(p, "failed")
    /\ UNCHANGED <<data, timer, lastApplied, mounted, actVars, ctxVars, loginVars>>

\* Continue behind an unmount guard: after teardown the responses are dropped
Continue_Guarded(p, stateData, agentsData, projectsData) ==
    /\ polls[p].st = "inflight"
    /\ AllSettled(p)
    /\ LET healthRes == polls[p].health[1]
           applies == Applies(stateData) /\ mounted # "torn"
           t == TryTail(loading, error)
       IN
       /\ data' = IF applies
                  THEN fetchedView(data, stateData, agentsData, projectsData, healthRes)
                  ELSE data
       /\ lastApplied' = IF applies THEN [poll |-> p, healthOk |-> healthRes.ok]
                         ELSE lastApplied
       /\ loading' = t.loading
       /\ error' = t.error
       /\ last' = [poll |-> p, outcome |-> IF applies THEN "applied" ELSE "skipped",
                   cause |-> "none", before |-> data, stateData |-> Some(stateData),
                   agentsData |-> Some(agentsData), projectsData |-> Some(projectsData),
                   healthRes |-> Some(healthRes),
                   healthRejected |-> polls[p].healthRejected, uncaught |-> t.uncaught,
                   torn |-> mounted = "torn"]
       /\ polls' = Finish(p, IF applies THEN "applied" ELSE "skipped")
    /\ UNCHANGED <<timer, mounted, actVars, ctxVars, loginVars>>

\* Continue with a sequencing guard: the responses of a poll are dropped when a
\* poll that started later has already updated the view model
Continue_Sequenced(p, stateData, agentsData, projectsData) ==
    /\ polls[p].st = "inflight"
    /\ AllSettled(p)
    /\ LET healthRes == polls[p].health[1]
           applies == Applies(stateData) /\ lastApplied.poll < p
           t == TryTail(loading, error)
       IN
       /\ data' = IF applies
                  THEN fetchedView(data, stateData, agentsData, projectsData, healthRes)
                  ELSE data
       /\ lastApplied' = IF applies THEN [poll |-> p, healthOk |-> healthRes.ok]
                         ELSE lastApplied
       /\ loading' = t.loading
       /\ error' = t.error
       /\ last' = [poll |-> p, outcome |-> IF applies THEN "applied" ELSE "skipped",
                   cause |-> "none", before |-> data, stateData |-> Some(stateData),
                   agentsData |-> Some(agentsData), projectsData |-> Some(projectsData),
                   healthRes |-> Some(healthRes),
                   healthRejected |-> polls[p].healthRejected, uncaught |-> t.uncaught,
                   torn |-> mounted = "torn"]
       /\ polls' = Finish(p, IF applies THEN "applied" ELSE "skipped")
    /\ UNCHANGED <<timer, mounted, actVars, ctxVars, loginVars>>

\* Promise.all has fulfilled and the three bodies parse: the rest of the try
\* block. The bodies are read here, by the json() calls; up to this point only
\* the Response objects were held. setData is called with an updater, which
\* React applies to the view model current at that time.
Continue(p, stateData, agentsData, projectsData) ==
    /\ polls[p].st = "inflight"
    /\ AllSettled(p)
    /\ LET healthRes == polls[p].health[1]
           applies == Applies(stateData)
           t == TryTail(loading, error)
       IN
       /\ data' = IF applies
                  THEN fetchedView(data, stateData, agentsData, projectsData, healthRes)
                  ELSE data
       /\ lastApplied' = IF applies THEN [poll |-> p, healthOk |-> healthRes.ok]
                         ELSE lastApplied
       /\ loading' = t.loading
       /\ error' = t.error
       /\ last' = [poll |-> p, outcome |-> IF applies THEN "applied" ELSE "skipped",
                   cause |-> "none", before |-> data, stateData |-> Some(stateData),
                   agentsData |-> Some(agentsData), projectsData |-> Some(projectsData),
                   healthRes |-> Some(healthRes),
                   healthRejected |-> polls[p].healthRejected, uncaught |-> t.uncaught,
                   torn |-> mounted = "torn"]
       /\ polls' = Finish(p, IF applies THEN "applied" ELSE "skipped")
    /\ UNCHANGED <<timer, mounted, actVars, ctxVars, loginVars>>

NextDash ==
    \/ Mount
    \/ Tick
    \/ \E p \in Polls, r \in JsonRequests : FetchFulfils(p, r)
    \/ \E p \in Polls, o \in HealthOutcomes : HealthSettles(p, o)
    \/ \E p \in Polls, r \in JsonRequests : FetchRejects(p, r)
    \/ \E p \in Polls : JsonRejects(p)
    \/ \E p \in Polls, sd \in StateBodies, ad \in AgentsBodies, pd \in ProjectsBodies :
          Continue(p, sd, ad, pd)

(***************************************************************************)
(* The live-fetch dashboard: teardown                                      *)
(***************************************************************************)
\* a teardown that leaves the interval running
Unmount_NoClear ==
    /\ mounted = "yes"
    /\ mounted' = "torn"
    /\ UNCHANGED <<data, loading, error, timer, polls, last, lastApplied, actVars, ctxVars, loginVars>>

\* the component is torn down: the cleanup of the polling effect runs,
\* clearInterval(interval). Nothing else is cleaned up: the calls of fetchState
\* in flight keep their continuations
Unmount ==
    /\ mounted = "yes"
    /\ mounted' = "torn"
    /\ timer' = "cleared"
    /\ UNCHANGED <<data, loading, error, polls, last, lastApplied, actVars, ctxVars, loginVars>>

(***************************************************************************)
(* The live-fetch dashboard: backend actions                               *)
(***************************************************************************)
\* the bodies the backend answers /set-project, /analyze and /build-and-save with
ActionBodies ==
    {[status |-> "success", message |-> None],
     [status |-> "error", message |-> Some("No project selected")],
     [status |-> "error", message |-> None]}

\* the arguments handleAction is called with: none, or the text of the Fix Bugs
\* button
PromptArgs == {None, Some("Fix all current lint errors and bugs")}

\* what window.prompt returns: null when cancelled (None), or the text typed
TypedTexts == {None, Some(""), Some("Add login")}

\* the truthiness of an optional string: undefined, null and "" are falsy
Truthy(o) == o # None /\ o[1] # ""

\* a test that takes every response for a success
Succeeded_Always(result) == TRUE

\* result.status === 'success'
Succeeded(result) == result.status = "success"

\* the alert of the success branch: handleSetProject shows none
SuccessAlert(kind) ==
    IF kind = "set-project" THEN {}
    ELSE IF kind = "analyze" THEN {<<"Project analyzed successfully!">>}
    ELSE {<<"Action completed successfully!">>}

\* alert('Error: ' + result.message); an absent message concatenates as
\* "undefined"
ErrorAlert(result) ==
    {<<"Error: ", IF result.message = None THEN "undefined" ELSE result.message[1]>>}

\* a catch block that swallows the failure
CatchAlert_None(kind) == {}

\* the alert of the catch block
CatchAlert(kind) ==
    IF kind = "set-project" THEN {<<"Failed to set project">>}
    ELSE {<<"Failed to connect to backend">>}

\* the alerts after call c has shown the texts in `texts`
Alerted(c, texts) == alerts \cup {[call |-> c, text |-> t] : t \in texts}

\* a handler up to its first await: the request is issued. The handlers are
\* bound to controls of the rendered component
StartCall(kind) ==
    /\ mounted = "yes"
    /\ \E c \in Calls : calls[c].st = "idle"
    /\ LET c == CHOOSE q \in Calls : calls[q].st = "idle" /\ \A r \in Calls : calls[r].st = "idle" => q <= r
       IN calls' = [calls EXCEPT ![c] = [st |-> "inflight", kind |-> kind, outcome |-> "none"]]

\* handleSetProject(projectPath) up to the await of the POST of /set-project;
\* the path travels in the request body and is not read again
HandleSetProject ==
    /\ StartCall("set-project")
    /\ UNCHANGED <<data, loading, error, timer, polls, last, lastApplied, mounted, alerts, ctxVars, loginVars>>

\* handleAnalyze() up to the await of the GET of /analyze
HandleAnalyze ==
    /\ StartCall("analyze")
    /\ UNCHANGED <<data, loading, error, timer, polls, last, lastApplied, mounted, alerts, ctxVars, loginVars>>

\* handleAction(prompt) up to the await of the POST of /build-and-save:
\* feature = prompt || window.prompt(...); if (!feature) return
HandleAction(prompt, typed) ==
    LET feature == IF Truthy(prompt) THEN prompt ELSE typed IN
    /\ IF Truthy(feature)
       THEN StartCall("build-and-save")
       ELSE /\ mounted = "yes"
            /\ \E c \in Calls : calls[c].st = "idle"
            /\ LET c == CHOOSE q \in Calls : calls[q].st = "idle" /\ \A r \in Calls : calls[r].st = "idle" => q <= r
               IN calls' = [calls EXCEPT ![c] = [st |-> "done", kind |-> "build-and-save",
                                                 outcome |-> "cancelled"]]
    /\ UNCHANGED <<data, loading, error, timer, polls, last, lastApplied, mounted, alerts, ctxVars, loginVars>>

\* the response of call c arrives and its body parses: the rest of the try
\* block. On success the handler alerts (analyze, build-and-save) and calls
\* fetchState(); otherwise it alerts the message of the body
ActionResponds(c, result) ==
    /\ calls[c].st = "inflight"
    /\ IF Succeeded(result)
       THEN /\ alerts' = Alerted(c, SuccessAlert(calls[c].kind))
            /\ StartPoll(ByAction(c))
       ELSE /\ alerts' = Alerted(c, ErrorAlert(result))
            /\ polls' = polls
    /\ calls' = [calls EXCEPT ![c].st = "done", ![c].outcome = result.status]
    /\ UNCHANGED <<data, loading, error, timer, last, lastApplied, mounted, ctxVars, loginVars>>

\* the request of call c is rejected (network error), or its body is not JSON:
\* the catch block of the handler runs
ActionFails(c) ==
    /\ calls[c].st = "inflight"
    /\ alerts' = Alerted(c, CatchAlert(calls[c].kind))
    /\ calls' = [calls EXCEPT ![c].st = "done", ![c].outcome = "network"]
    /\ UNCHANGED <<data, loading, error, timer, polls, last, lastApplied, mounted, ctxVars, loginVars>>

(***************************************************************************)
(* The context-based dashboard: NeuronProvider                             *)
(***************************************************************************)
TaskStatus ==
    {"received", "analyzing", "implementing", "patching", "verifying", "completed",
     "failed"}

\* lastResponseTime is kept in tenths of a second
mockAgents ==
    << [id |-> "1", name |-> "Architect", type |-> "architect", status |-> "idle",
        currentAction |-> "Awaiting instructions", lastResponseTime |-> 0,
        tokenUsage |-> 0, enabled |-> TRUE],
       [id |-> "2", name |-> "Backend Agent", type |-> "backend", status |-> "working",
        currentAction |-> "Generating API endpoints for user authentication",
        lastResponseTime |-> 12, tokenUsage |-> 4521, enabled |-> TRUE],
       [id |-> "3", name |-> "Frontend Agent", type |-> "frontend", status |-> "waiting",
        currentAction |-> "Waiting for backend schema", lastResponseTime |-> 8,
        tokenUsage |-> 2103, enabled |-> TRUE],
       [id |-> "4", name |-> "Code Reviewer", type |-> "reviewer", status |-> "idle",
        currentAction |-> "Queue empty", lastResponseTime |-> 0, tokenUsage |-> 0,
        enabled |-> TRUE],
       [id |-> "5", name |-> "File Patcher", type |-> "patcher", status |-> "working",
        currentAction |-> "Applying changes to src/api/auth.ts", lastResponseTime |-> 3,
        tokenUsage |-> 892, enabled |-> TRUE],
       [id |-> "6", name |-> "Verifier", type |-> "verifier", status |-> "idle",
        currentAction |-> "Awaiting patches", lastResponseTime |-> 0, tokenUsage |-> 0,
        enabled |-> TRUE] >>

\* the active task of the mock project, with the fields the pipeline reads
mockTask ==
    [id |-> "t1", name |-> "Implement User Authentication", status |-> "implementing",
     triggerSource |-> "ui"]

mockProject ==
    [id |-> "1", name |-> "neuron-core", workspaceMode |-> "safe",
     coreStatus |-> "running", activeTask |-> Some(mockTask)]

\* the projects setActiveProject is called with: the mock project with its task in
\* any status, or without an active task
ProjectInputs ==
    {[mockProject EXCEPT !.activeTask = Some([mockTask EXCEPT !.status = s])] :
        s \in TaskStatus}
    \cup {[mockProject EXCEPT !.activeTask = None]}

\* the ids the agent controls are called with; "9" matches no agent
AgentIds == {mockAgents[k].id : k \in 1..Len(mockAgents)} \cup {"9"}

\* the ids the enable switch is operated with: a working agent, a waiting agent
\* and an id that matches no agent
ToggledIds == {"2", "3", "9"}

AgentStatus == {"idle", "working", "waiting", "failed"}

\* agent lists of the Agent type: the mock agents with the first three in any
\* status
AgentLists ==
    {[k \in 1..Len(mockAgents) |->
        IF k <= 3 THEN [mockAgents[k] EXCEPT !.status = f[k]] ELSE mockAgents[k]] :
     f \in [1..3 -> AgentStatus]}

LogSeverity == {"info", "warning", "error", "debug"}

\* the log entries, with the fields the Logs page filters and counts by
mockLogs ==
    << [id |-> "l1", severity |-> "info", agent |-> "Backend Agent"],
       [id |-> "l2", severity |-> "info", agent |-> "Architect"],
       [id |-> "l3", severity |-> "warning", agent |-> "File Patcher"],
       [id |-> "l4", severity |-> "info", agent |-> "Frontend Agent"],
       [id |-> "l5", severity |-> "error", agent |-> "Verifier"] >>

mockFileChanges ==
    << [path |-> "src/api/auth.ts", type |-> "modified", isWorkspace |-> TRUE],
       [path |-> "src/components/Login.tsx", type |-> "created", isWorkspace |-> TRUE],
       [path |-> "src/hooks/useAuth.ts", type |-> "created", isWorkspace |-> TRUE],
       [path |-> "package.json", type |-> "skipped", isWorkspace |-> FALSE] >>

\* estimatedCost is kept in cents, agentFailureRate in percent
mockMetrics ==
    [tokensUsed |-> 12847, apiCalls |-> 23, estimatedCost |-> 38, avgTaskTime |-> 145,
     agentFailureRate |-> 2, retryCount |-> 1]

\* the log lists the Logs page is rendered with: every list of up to MaxLogs
\* entries of any severity, and the mock logs
LogLists ==
    {mockLogs} \cup
    UNION {{[k \in 1..n |-> [id |-> mockLogs[k].id, severity |-> f[k],
                              agent |-> mockLogs[k].agent]] : f \in [1..n -> LogSeverity]} :
           n \in 0..MaxLogs}

\* the values of the filter buttons
FilterValues == {"all"} \cup LogSeverity

\* Math.floor(Math.random() * 50) is one of 0..49: the two ends
TokenIncrements == {0, 49}

\* Math.random() * 2 lies in [0, 2): the two ends, in tenths of a second
ResponseTimes == {0, 19}

(***************************************************************************)
(* The pipeline stage mapper and the pipeline view                         *)
(***************************************************************************)
stages ==
    << [status |-> "received", label |-> "Received"],
       [status |-> "analyzing", label |-> "Analyzing"],
       [status |-> "implementing", label |-> "Implementing"],
       [status |-> "patching", label |-> "Patching"],
       [status |-> "verifying", label |-> "Verifying"],
       [status |-> "completed", label |-> "Completed"] >>

\* stages.findIndex(s => s.status === status): the zero-based index of the first
\* match, -1 when there is none
FindStage(status) ==
    LET hits == {k \in 1..Len(stages) : stages[k].status = status} IN
    IF hits = {} THEN -1
    ELSE (CHOOSE k \in hits : \A j \in hits : k <= j) - 1

\* stageIndex that counts the stages from one
stageIndex_OneBased(status) == IF status = "failed" THEN -1 ELSE FindStage(status) + 1

stageIndex(status) == IF status = "failed" THEN -1 ELSE FindStage(status)

\* StageView that counts the current stage among the completed ones
StageView_Inclusive(index, currentStage, isFailed) ==
    LET isActive == index = currentStage
        isCompleted == index <= currentStage
        isCurrent == isActive /\ ~isFailed
    IN [isActive |-> isActive, isCompleted |-> isCompleted, isCurrent |-> isCurrent,
        isPending |-> ~isCompleted /\ ~isCurrent,
        errorMarker |-> isFailed /\ isActive]

\* what stages.map draws for the stage at zero-based index `index`: the three
\* circle styles (completed, current, pending) and the XCircle error marker
StageView(index, currentStage, isFailed) ==
    LET isActive == index = currentStage
        isCompleted == index < currentStage
        isCurrent == isActive /\ ~isFailed
    IN [isActive |-> isActive, isCompleted |-> isCompleted, isCurrent |-> isCurrent,
        isPending |-> ~isCompleted /\ ~isCurrent,
        errorMarker |-> isFailed /\ isActive]

\* progressFill without Math.max
progressFill_NoClamp(currentStage) == (currentStage * 100) \div (Len(stages) - 1)

\* the width of the progress line in percent:
\* Math.max(0, (currentStage / (stages.length - 1)) * 100). The quotient is
\* taken after the product, which is exact for the stage indexes (-1..5 give
\* -20, 0, 20, .., 100, as the floating-point expression does)
progressFill(currentStage) ==
    LET w == (currentStage * 100) \div (Len(stages) - 1) IN IF w > 0 THEN w ELSE 0

\* the render of TaskPipeline for a task: the status it drew, the stage index and
\* the view of each of the stages (entry k is the stage at zero-based index k - 1)
PipelineView(task) ==
    LET currentStage == stageIndex(task.status)
        isFailed == task.status = "failed"
    IN [status |-> task.status, currentStage |-> currentStage, isFailed |-> isFailed,
        stageViews |-> [k \in 1..Len(stages) |-> StageView(k - 1, currentStage, isFailed)],
        fill |-> progressFill(currentStage)]

\* the render of TaskPipeline without an active task ("No active task")
NoTaskView ==
    [status |-> "none", currentStage |-> -1, isFailed |-> FALSE, stageViews |-> <<>>,
     fill |-> 0]

(***************************************************************************)
(* The Logs page                                                           *)
(***************************************************************************)
\* a filter that takes 'all' for a severity
filteredLogs_AllIsSeverity(ls, filter) == SelectSeq(ls, LAMBDA l : l.severity = filter)

\* filter === 'all' ? logs : logs.filter(l => l.severity === filter)
filteredLogs(ls, filter) ==
    IF filter = "all" THEN ls ELSE SelectSeq(ls, LAMBDA l : l.severity = filter)

\* the count on the button of severity sev: logs.filter(l => l.severity === sev).length
SeverityCount(ls, sev) == Len(SelectSeq(ls, LAMBDA l : l.severity = sev))

\* the render of the Logs page: the list drawn and the counts on the four
\* severity buttons (the button of 'all' carries none)
LogsView(ls, filter) ==
    [filter |-> filter, filteredLogs |-> filteredLogs(ls, filter),
     counts |-> [sev \in LogSeverity |-> SeverityCount(ls, sev)]]

(***************************************************************************)
(* NeuronProvider: state, effects and operations                           *)
(***************************************************************************)
NoOp == [op |-> "none", id |-> "-"]

\* the provider constructed over the agent list ags and the log list ls
InitProvider(ags, ls) ==
    /\ agents = ags
    /\ tasks = IF mockProject.activeTask # None THEN <<mockProject.activeTask[1]>> ELSE <<>>
    /\ activeProject = Some(mockProject)
    /\ logs = ls
    /\ fileChanges = mockFileChanges
    /\ metrics = mockMetrics
    /\ pipeline = None
    /\ provider = "no"
    /\ simTimer = "unset"
    /\ simTicks = 0
    /\ toggleCount = [id \in AgentIds |-> 0]
    /\ lastOp = NoOp
    /\ logsPage = LogsView(ls, "all")

InitCtx == InitProvider(mockAgents, mockLogs)

\* the simulation effect on mount: setInterval(..., 2000)
ProviderMount ==
    /\ provider = "no"
    /\ provider' = "yes"
    /\ simTimer' = "running"
    /\ UNCHANGED <<agents, activeProject, pipeline, fixedVars, simTicks, toggleCount, lastOp,
                   logsPage, dashVars, loginVars>>

\* the provider is torn down: the cleanup of the simulation effect runs,
\* clearInterval(interval)
ProviderUnmount ==
    /\ provider = "yes"
    /\ provider' = "torn"
    /\ simTimer' = "cleared"
    /\ UNCHANGED <<agents, activeProject, pipeline, fixedVars, simTicks, toggleCount, lastOp,
                   logsPage, dashVars, loginVars>>

\* the indexes of the working agents of a list
Working(ags) == {k \in 1..Len(ags) : ags[k].status = "working"}

\* an updater that moves the agents that are not working
simulated_Others(prev, inc, rt) ==
    [k \in 1..Len(prev) |->
        IF prev[k].status # "working"
        THEN [prev[k] EXCEPT !.tokenUsage = prev[k].tokenUsage + 1]
        ELSE prev[k]]

\* the updater of the simulation interval: every working agent gains inc[k]
\* tokens and gets the response time rt[k]; the other agents are kept
simulated(prev, inc, rt) ==
    [k \in 1..Len(prev) |->
        IF prev[k].status = "working"
        THEN [prev[k] EXCEPT !.tokenUsage = prev[k].tokenUsage + inc[k],
                             !.lastResponseTime = rt[k]]
        ELSE prev[k]]

\* the simulation interval fires; inc and rt are what Math.random gave for each
\* working agent
SimTick(inc, rt) ==
    /\ simTimer = "running"
    /\ simTicks < MaxTicks
    /\ agents' = simulated(agents, inc, rt)
    /\ simTicks' = simTicks + 1
    /\ lastOp' = [op |-> "tick", id |-> "-"]
    /\ UNCHANGED <<activeProject, pipeline, fixedVars, provider, simTimer, toggleCount,
                   logsPage, dashVars, loginVars>>

\* setActiveProject(project)
SetActiveProject(project) ==
    /\ activeProject' = Some(project)
    /\ lastOp' = [op |-> "setActiveProject", id |-> "-"]
    /\ UNCHANGED <<agents, pipeline, fixedVars, simVars, toggleCount, logsPage, dashVars, loginVars>>

\* an updater that switches the matching agent off
toggled_Off(prev, agentId) ==
    [k \in 1..Len(prev) |->
        IF prev[k].id = agentId THEN [prev[k] EXCEPT !.enabled = FALSE] ELSE prev[k]]

\* an updater that flips every agent
toggled_All(prev, agentId) ==
    [k \in 1..Len(prev) |-> [prev[k] EXCEPT !.enabled = ~prev[k].enabled]]

\* the updater of toggleAgentEnabled:
\* prev.map(agent => agent.id === agentId ? {...agent, enabled: !agent.enabled} : agent)
toggled(prev, agentId) ==
    [k \in 1..Len(prev) |->
        IF prev[k].id = agentId
        THEN [prev[k] EXCEPT !.enabled = ~prev[k].enabled]
        ELSE prev[k]]

\* toggleAgentEnabled(agentId)
ToggleAgentEnabled(agentId) ==
    /\ toggleCount[agentId] < MaxToggles
    /\ agents' = toggled(agents, agentId)
    /\ toggleCount' = [toggleCount EXCEPT ![agentId] = @ + 1]
    /\ lastOp' = [op |-> "toggleAgentEnabled", id |-> agentId]
    /\ UNCHANGED <<activeProject, pipeline, fixedVars, simVars, logsPage, dashVars, loginVars>>

\* an updater that restarts the matching agent in any status
retried_AnyStatus(prev, agentId) ==
    [k \in 1..Len(prev) |->
        IF prev[k].id = agentId
        THEN [prev[k] EXCEPT !.status = "working", !.currentAction = "Retrying..."]
        ELSE prev[k]]

\* an updater that restarts the matching agent unless it is failed
retried_NotFailed(prev, agentId) ==
    [k \in 1..Len(prev) |->
        IF prev[k].id = agentId /\ prev[k].status # "failed"
        THEN [prev[k] EXCEPT !.status = "working", !.currentAction = "Retrying..."]
        ELSE prev[k]]

\* the updater of retryAgent: prev.map(agent => agent.id === agentId &&
\* agent.status === 'failed' ? {...agent, status: 'working', currentAction:
\* 'Retrying...'} : agent)
retried(prev, agentId) ==
    [k \in 1..Len(prev) |->
        IF prev[k].id = agentId /\ prev[k].status = "failed"
        THEN [prev[k] EXCEPT !.status = "working", !.currentAction = "Retrying..."]
        ELSE prev[k]]

\* retryAgent(agentId)
RetryAgent(agentId) ==
    /\ agents' = retried(agents, agentId)
    /\ lastOp' = [op |-> "retryAgent", id |-> agentId]
    /\ UNCHANGED <<activeProject, pipeline, fixedVars, simVars, toggleCount, logsPage, dashVars, loginVars>>

\* startTask(), pauseTask(), abortTask(): the bodies are empty
TaskControl(op) ==
    /\ lastOp' = [op |-> op, id |-> "-"]
    /\ UNCHANGED <<agents, activeProject, pipeline, fixedVars, simVars, toggleCount, logsPage,
                   dashVars, loginVars>>

StartTask == TaskControl("startTask")

PauseTask == TaskControl("pauseTask")

AbortTask == TaskControl("abortTask")

\* TaskPipeline renders from the context: task = activeProject?.activeTask
RenderPipeline ==
    /\ pipeline' = Some(IF activeProject # None /\ activeProject[1].activeTask # None
                        THEN PipelineView(activeProject[1].activeTask[1])
                        ELSE NoTaskView)
    /\ UNCHANGED <<agents, activeProject, fixedVars, simVars, toggleCount, lastOp, logsPage,
                   dashVars, loginVars>>

\* a filter button of the Logs page is clicked: setFilter(sev), and the page
\* renders again
SetFilter(sev) ==
    /\ logsPage' = LogsView(logs, sev)
    /\ UNCHANGED <<agents, activeProject, pipeline, fixedVars, simVars, toggleCount, lastOp,
                   dashVars, loginVars>>

NextCtx ==
    \/ \E project \in ProjectInputs : SetActiveProject(project)
    \/ \E agentId \in ToggledIds : ToggleAgentEnabled(agentId)
    \/ \E agentId \in AgentIds : RetryAgent(agentId)
    \/ RenderPipeline

\* the provider with its simulation running and the agent controls in use
NextSim ==
    \/ ProviderMount
    \/ \E inc \in [Working(agents) -> TokenIncrements],
          rt \in [Working(agents) -> ResponseTimes] : SimTick(inc, rt)
    \/ ProviderUnmount
    \/ \E agentId \in ToggledIds : ToggleAgentEnabled(agentId)
    \/ \E agentId \in ToggledIds : RetryAgent(agentId)

\* every operation of the provider, with one outcome of Math.random
NextOps ==
    \/ ProviderMount
    \/ \E inc \in [Working(agents) -> {49}], rt \in [Working(agents) -> {19}] :
          SimTick(inc, rt)
    \/ \E agentId \in ToggledIds : ToggleAgentEnabled(agentId)
    \/ \E agentId \in AgentIds : RetryAgent(agentId)
    \/ \E project \in {[mockProject EXCEPT !.activeTask = None], mockProject} :
          SetActiveProject(project)
    \/ StartTask
    \/ PauseTask
    \/ AbortTask

\* the agent controls over any agent list
NextRetry ==
    \/ \E agentId \in AgentIds : RetryAgent(agentId)
    \/ \E agentId \in ToggledIds : ToggleAgentEnabled(agentId)

\* the Logs page
NextLogs == \E sev \in FilterValues : SetFilter(sev)

\* the backend actions of the live-fetch dashboard; the polls they start end
\* with a rejected fetch
NextAct ==
    \/ Mount
    \/ HandleSetProject
    \/ HandleAnalyze
    \/ \E prompt \in PromptArgs, typed \in TypedTexts : HandleAction(prompt, typed)
    \/ \E c \in Calls, result \in ActionBodies : ActionResponds(c, result)
    \/ \E c \in Calls : ActionFails(c)
    \/ \E p \in Polls, r \in JsonRequests : FetchRejects(p, r)

\* the live-fetch dashboard from mount to teardown, with one outcome of each
\* request
NextTeardown ==
    \/ Mount
    \/ Tick
    \/ Unmount
    \/ \E p \in Polls, r \in JsonRequests : FetchFulfils(p, r)
    \/ \E p \in Polls : HealthSettles(p, [rejected |-> FALSE, ok |-> TRUE])
    \/ \E p \in Polls : FetchRejects(p, "dashboard-state")
    \/ \E p \in Polls, sd \in {StateFull, StateError} :
          Continue(p, sd, [agents |-> None], [data |-> None])

\* the polls of the live-fetch dashboard over feature lists with and without
\* timestamps, with one outcome of the other requests
NextActivity ==
    \/ Mount
    \/ Tick
    \/ \E p \in Polls, r \in JsonRequests : FetchFulfils(p, r)
    \/ \E p \in Polls : HealthSettles(p, [rejected |-> FALSE, ok |-> TRUE])
    \/ \E p \in Polls : FetchRejects(p, "agents/status")
    \/ \E p \in Polls, sd \in {StateFull, StateRecent, StateBare, StateError} :
          Continue(p, sd, [agents |-> None], [data |-> None])

\* the two interval timers from mount to teardown
NextLife ==
    \/ Mount
    \/ Tick
    \/ Unmount
    \/ ProviderMount
    \/ \E inc \in [Working(agents) -> TokenIncrements],
          rt \in [Working(agents) -> ResponseTimes] : SimTick(inc, rt)
    \/ ProviderUnmount

(***************************************************************************)
(* The login demo of the test projects: controllers                        *)
(***************************************************************************)
Sites == {"core", "test"}

\* the users collection; the stored hash is written as the password it hashes
Users == {[id |-> "u1", email |-> "ann@x.io", password |-> "secret1"]}

NoUser == [id |-> "-", email |-> "-", password |-> "-"]

\* User.findOne({ email }): the user with that email, or null; an undefined
\* email matches no user
FindOne(email) ==
    IF email # None /\ \E u \in Users : u.email = email[1]
    THEN CHOOSE u \in Users : u.email = email[1]
    ELSE NoUser

\* jwt.sign(...): the token names the user
Token(user) == <<"jwt", user.id>>

\* res.status(status).json(...): the status and, on success, the token
Answer(status, token) == [status |-> status, token |-> token]

\* how the database lookup and bcrypt behave for one request
Outcomes == {"ok", "throws"}

\* the login controller of Neuron-Core/testproject
loginCore(body, lookup, compare) ==
    IF ~Truthy(body.email) \/ ~Truthy(body.password) THEN Answer(400, None)
    ELSE IF lookup = "throws" THEN Answer(500, None)
    ELSE LET user == FindOne(body.email) IN
         IF user = NoUser THEN Answer(401, None)
         ELSE IF compare = "throws" THEN Answer(500, None)
         ELSE IF body.password[1] # user.password THEN Answer(401, None)
         ELSE Answer(200, Some(Token(user)))

\* the login controller of testproject; bcrypt.compare rejects when the
\* password is undefined
loginTest(body, lookup, compare) ==
    IF lookup = "throws" THEN Answer(500, None)
    ELSE LET user == FindOne(body.email) IN
         IF user = NoUser THEN Answer(400, None)
         ELSE IF compare = "throws" \/ body.password = None THEN Answer(500, None)
         ELSE IF body.password[1] # user.password THEN Answer(400, None)
         ELSE Answer(200, Some(Token(user)))

\* the controller behind the login route of a test project
login(s, body, lookup, compare) ==
    IF s = "core" THEN loginCore(body, lookup, compare)
    ELSE loginTest(body, lookup, compare)

(***************************************************************************)
(* The login demo of the test projects: forms                              *)
(***************************************************************************)
\* what is typed into the email and password inputs
Emails == {"ann@x.io", "bob@x.io"}
Passwords == {"secret1", "wrong12"}

\* the JSON bodies a client posts: each field present or absent
Body(email, username, password) ==
    [email |-> email, username |-> username, password |-> password]

RawBodies ==
    {Body(e, None, p) : e \in {None, Some("ann@x.io"), Some("bob@x.io")},
                        p \in {None, Some("secret1"), Some("wrong12")}}

\* the body LoginForm posts: { username: email, password }
bodyCore(fm) == Body(None, Some(fm.email), Some(fm.password))

\* the body Login posts: { email, password }
bodyTest(fm) == Body(Some(fm.email), None, Some(fm.password))

\* the responses a login endpoint can give
Replies ==
    {Answer(200, Some(Token(u))) : u \in Users}
    \cup {Answer(st, None) : st \in {400, 401, 500}}

\* a test that takes every response for a success
Ok_Always(resp) == TRUE

\* response.ok, and the default validateStatus of axios
Ok(resp) == resp.status \in 200..299

\* the message LoginForm sets in its catch block (err.response is absent after
\* a network error)
errorCore(rp) ==
    IF ~rp.network /\ rp.response.status = 401 THEN "Invalid email or password"
    ELSE "An error occurred. Please try again."

\* the message Login sets in its catch block: err.message
errorTest(rp) ==
    IF rp.network THEN "Failed to fetch" ELSE "Invalid email or password"

NoAnswer ==
    [by |-> "none", body |-> Body(None, None, None), typed |-> [email |-> "", password |-> ""],
     lookup |-> "ok", compare |-> "ok", responses |-> <<>>]

InitLogin(s) ==
    /\ site = s
    /\ form = [email |-> "", password |-> "", error |-> ""]
    /\ request = None
    /\ reply = None
    /\ answered = NoAnswer
    /\ localStorage = None
    /\ logins = 0

\* onChange of the email input: setEmail(e.target.value)
SetEmail(v) ==
    /\ form' = [form EXCEPT !.email = v]
    /\ UNCHANGED <<site, request, reply, answered, localStorage, logins, dashVars, ctxVars>>

\* onChange of the password input: setPassword(e.target.value)
SetPassword(v) ==
    /\ form' = [form EXCEPT !.password = v]
    /\ UNCHANGED <<site, request, reply, answered, localStorage, logins, dashVars, ctxVars>>

\* handleSubmit up to its await: the POST is sent (LoginForm clears the error
\* first). Both inputs are `required`, so the form submits with both filled
Submit ==
    /\ logins < MaxLogins
    /\ request = None
    /\ reply = None
    /\ form.email # ""
    /\ form.password # ""
    /\ request' = Some([by |-> "form",
                        body |-> IF site = "core" THEN bodyCore(form) ELSE bodyTest(form),
                        typed |-> [email |-> form.email, password |-> form.password]])
    /\ form' = IF site = "core" THEN [form EXCEPT !.error = ""] ELSE form
    /\ logins' = logins + 1
    /\ UNCHANGED <<site, reply, answered, localStorage, dashVars, ctxVars>>

\* another client posts a body to the login route
RawPost(body) ==
    /\ logins < MaxLogins
    /\ request = None
    /\ reply = None
    /\ request' = Some([by |-> "raw", body |-> body,
                        typed |-> [email |-> "", password |-> ""]])
    /\ logins' = logins + 1
    /\ UNCHANGED <<site, form, reply, answered, localStorage, dashVars, ctxVars>>

\* the login controller handles the request in flight and its response travels
\* back (a response to another client is dropped there)
ControllerAnswers(lookup, compare) ==
    /\ request # None
    /\ LET resp == login(site, request[1].body, lookup, compare) IN
       /\ answered' = [by |-> request[1].by, body |-> request[1].body,
                       typed |-> request[1].typed, lookup |-> lookup,
                       compare |-> compare, responses |-> <<resp>>]
       /\ reply' = IF request[1].by = "form"
                   THEN Some([network |-> FALSE, response |-> resp])
                   ELSE None
    /\ request' = None
    /\ UNCHANGED <<site, form, localStorage, logins, dashVars, ctxVars>>

\* the login endpoint answers the request of the form with some response
EndpointAnswers(resp) ==
    /\ request # None
    /\ request[1].by = "form"
    /\ reply' = Some([network |-> FALSE, response |-> resp])
    /\ request' = None
    /\ UNCHANGED <<site, form, answered, localStorage, logins, dashVars, ctxVars>>

\* the request of the form is rejected (network error)
RequestFails ==
    /\ request # None
    /\ request[1].by = "form"
    /\ reply' = Some([network |-> TRUE, response |-> Answer(0, None)])
    /\ request' = None
    /\ UNCHANGED <<site, form, answered, localStorage, logins, dashVars, ctxVars>>

\* the rest of handleSubmit: on a 2xx response the token goes to local storage,
\* otherwise the catch block sets the error
FormContinues ==
    /\ reply # None
    /\ IF ~reply[1].network /\ Ok(reply[1].response)
       THEN /\ localStorage' = reply[1].response.token
            /\ form' = form
       ELSE /\ localStorage' = localStorage
            /\ form' = [form EXCEPT !.error = IF site = "core" THEN errorCore(reply[1])
                                                ELSE errorTest(reply[1])]
    /\ reply' = None
    /\ UNCHANGED <<site, request, answered, logins, dashVars, ctxVars>>

\* the login controllers under any request body
NextController ==
    \/ \E body \in RawBodies : RawPost(body)
    \/ \E lookup \in Outcomes, compare \in Outcomes : ControllerAnswers(lookup, compare)

\* the login forms against any endpoint
NextForm ==
    \/ \E v \in Emails : SetEmail(v)
    \/ \E v \in Passwords : SetPassword(v)
    \/ Submit
    \/ \E resp \in Replies : EndpointAnswers(resp)
    \/ RequestFails
    \/ FormContinues

\* the login form against the login controller of its project
NextLogin ==
    \/ \E v \in Emails : SetEmail(v)
    \/ \E v \in Passwords : SetPassword(v)
    \/ Submit
    \/ \E lookup \in Outcomes, compare \in Outcomes : ControllerAnswers(lookup, compare)
    \/ RequestFails
    \/ FormContinues

(***************************************************************************)
(* Specifications                                                          *)
(***************************************************************************)
Init == InitDash /\ InitCtx /\ InitLogin("core")

Next == NextDash

\* the live-fetch dashboard
Spec == Init /\ [][Next]_vars

\* the context-based dashboard
CtxSpec == Init /\ [][NextCtx]_vars

\* the provider with its simulation running
SimSpec == Init /\ [][NextSim]_vars

\* the agent controls over any agent list
InitRetry ==
    InitDash /\ InitLogin("core") /\ \E ags \in AgentLists : InitProvider(ags, mockLogs)
RetrySpec == InitRetry /\ [][NextRetry]_vars

\* the Logs page over any log list
InitLogs ==
    InitDash /\ InitLogin("core") /\ \E ls \in LogLists : InitProvider(mockAgents, ls)
LogsSpec == InitLogs /\ [][NextLogs]_vars

\* the backend actions of the live-fetch dashboard
ActSpec == Init /\ [][NextAct]_vars

\* the live-fetch dashboard from mount to teardown
TeardownSpec == Init /\ [][NextTeardown]_vars

\* every operation of the provider
OpsSpec == Init /\ [][NextOps]_vars

\* the polls over feature lists with and without timestamps
ActivitySpec == Init /\ [][NextActivity]_vars

\* the login controllers of both test projects under any request body
InitSites == InitDash /\ InitCtx /\ \E s \in Sites : InitLogin(s)
ControllerSpec == InitSites /\ [][NextController]_vars

\* the login forms of both test projects against any endpoint
FormSpec == InitSites /\ [][NextForm]_vars

\* LoginForm against the login controller of Neuron-Core/testproject
LoginSpec == Init /\ [][NextLogin]_vars

\* the two interval timers from mount to teardown
LifeSpec == Init /\ [][NextLife]_vars

(***************************************************************************)
(* Properties of the live-fetch dashboard (checked under Spec)             *)
(***************************************************************************)
\* the elements of a list
Range(s) == {s[k] : k \in 1..Len(s)}

\* the entities a response carries in an optional list
ListOr(o) == IF o = None THEN <<>> ELSE o[1]

\* the most recently finished poll read its three bodies
BodiesRead == last.stateData # None

\* the most recently finished poll read a /dashboard-state body of status success
SuccessRead == BodiesRead /\ last.stateData[1].status = "success"

\* d.activities is the list of features of the body sd, newest first, and
\* d.lastAction goes with it
ActivitiesFrom(d, sd) ==
    LET fs == ListOr(sd.features) IN
    /\ Len(d.activities) = Len(fs)
    /\ \A k \in 1..Len(fs) : d.activities[k].request = fs[Len(fs) + 1 - k].feature
    /\ d.lastAction = IF Len(fs) = 0 THEN "Never" ELSE d.activities[1].timestamp

\* C1: when the /dashboard-state body of a poll has a status other than
\* success, agents, metrics and project of the view model after the poll are
\* those from before the poll, whatever the view model was and whatever the
\* other bodies held.
C1_NonSuccessKeepsView ==
    (BodiesRead /\ last.stateData[1].status # "success") =>
        /\ data.agents = last.before.agents
        /\ data.metrics = last.before.metrics
        /\ data.project = last.before.project

\* C1 happens: a poll with a non-success body (naming another project) finished
\* over a view model that had a project and agents
C1_Witness ==
    /\ last.outcome = "skipped"
    /\ last.before.agents # <<>>
    /\ last.before.project # Null
    /\ last.stateData[1].project # last.before.project
    /\ last.agentsData[1].agents # Some(last.before.agents)

\* C2: when one of the /dashboard-state, /agents/status and /list-projects
\* requests of a poll fails with a network error, the poll leaves the view
\* model as it was and the connection-error state is set.
C2_NetworkFailureSetsError ==
    (last.outcome = "failed" /\ last.cause \in JsonRequests) =>
        /\ data = last.before
        /\ error = Some(ConnectError)

C4_AllOrNothing ==
    last.poll # 0 =>
        \/ data = last.before
        \/ /\ SuccessRead
           /\ LET sd == last.stateData[1] IN
              /\ data.hasProject = sd.has_project
              /\ data.project = sd.project
              /\ data.projects = ListOr(last.projectsData[1].data)
              /\ data.metrics = (IF sd.metrics = None THEN InitMetrics ELSE sd.metrics[1])
              /\ data.agents = ListOr(last.agentsData[1].agents)
              /\ data.systemStatus = (IF last.healthRes[1].ok THEN "online" ELSE "offline")
              /\ ActivitiesFrom(data, sd)

\* C4, amended: after a finished poll the view model is the one from before the
\* poll, or hasProject, project, projects, activities, systemStatus and lastAction
\* come from the bodies of that poll, and metrics and agents each come from the
\* body when the body carries them and from the previous view model when not.
C4_AllOrNothingButFallbacks ==
    last.poll # 0 =>
        \/ data = last.before
        \/ /\ SuccessRead
           /\ LET sd == last.stateData[1] IN
              /\ data.hasProject = sd.has_project
              /\ data.project = sd.project
              /\ data.projects = ListOr(last.projectsData[1].data)
              /\ data.metrics = (IF sd.metrics = None THEN last.before.metrics ELSE sd.metrics[1])
              /\ data.agents = (IF last.agentsData[1].agents = None THEN last.before.agents
                                ELSE last.agentsData[1].agents[1])
              /\ data.systemStatus = (IF last.healthRes[1].ok THEN "online" ELSE "offline")
              /\ ActivitiesFrom(data, sd)

\* C4 happens: a poll whose bodies carry neither agents nor metrics changed the
\* view model and kept the agents and the metrics of an earlier poll
C4_Witness ==
    /\ last.outcome = "applied"
    /\ last.agentsData[1].agents = None
    /\ last.stateData[1].metrics = None
    /\ last.before.agents # <<>>
    /\ last.before.metrics # InitMetrics
    /\ data # last.before
    /\ data.agents = last.before.agents

\* C5 as claimed: after a poll that updates the view model, agents, projects and
\* activities hold exactly the entities of the bodies of that poll.
C5_FullReplace ==
    SuccessRead =>
        /\ data.agents = ListOr(last.agentsData[1].agents)
        /\ data.projects = ListOr(last.projectsData[1].data)
        /\ ActivitiesFrom(data, last.stateData[1])

\* C5, amended: after a poll that updates the view model, projects and
\* activities hold exactly the entities of the bodies of that poll, and so does
\* agents when the /agents/status body carries an agents list: an entity that was
\* there before and is not in the body is gone. When the body carries no agents
\* list the previous agents are kept.
C5_FullReplaceButAgentsFallback ==
    SuccessRead =>
        LET ad == last.agentsData[1] IN
        /\ data.projects = ListOr(last.projectsData[1].data)
        /\ ActivitiesFrom(data, last.stateData[1])
        /\ ad.agents # None =>
              /\ data.agents = ad.agents[1]
              /\ \A a \in Range(last.before.agents) :
                    a \notin Range(ad.agents[1]) => a \notin Range(data.agents)
        /\ ad.agents = None => data.agents = last.before.agents
        /\ \A q \in Range(last.before.projects) :
              q \notin Range(ListOr(last.projectsData[1].data)) => q \notin Range(data.projects)
        /\ \A f \in Range(last.before.activities) :
              f.request \notin {g.feature : g \in Range(ListOr(last.stateData[1].features))}
                 => f \notin Range(data.activities)

\* C5 happens: a poll whose bodies hold an empty agents list, no projects and no
\* features replaced a view model that had agents, projects and activities
C5_Witness ==
    /\ last.outcome = "applied"
    /\ last.agentsData[1].agents = Some(<<>>)
    /\ last.before.agents # <<>>
    /\ last.before.projects # <<>>
    /\ last.before.activities # <<>>
    /\ data.agents = <<>>
    /\ data.projects = <<>>
    /\ data.activities = <<>>

\* C6 as claimed: before any poll has finished systemStatus is offline, and
\* afterwards it is online exactly when the health check of the poll that
\* finished most recently succeeded (polls that ended before their health check
\* settled aside).
C6_StatusOfLatestPoll ==
    IF last.poll = 0 THEN data.systemStatus = "offline"
    ELSE last.healthRes # None =>
            (data.systemStatus = "online" <=> last.healthRes[1].ok)

\* C6, amended: systemStatus is online exactly when the health check of the most
\* recent poll that updated the view model succeeded; it is offline before any
\* poll has updated the view model.
C6_StatusOfLatestUpdate ==
    data.systemStatus =
        IF lastApplied.poll # 0 /\ lastApplied.healthOk THEN "online" ELSE "offline"

\* C6 happens: the poll that finished last had a failed health check and made no
\* update, and systemStatus is still the online of an earlier poll
C6_Witness ==
    /\ lastApplied.poll # 0
    /\ last.poll # lastApplied.poll
    /\ last.healthRes # None
    /\ ~last.healthRes[1].ok
    /\ data.systemStatus = "online"

\* C7: polls overlap and are not sequenced: when a poll finishes with a success
\* body after a poll that started later has already updated the view model, its
\* bodies replace the view model all the same, so that the view model is that of
\* the poll that finished last.
C7_StaleOverwrite ==
    (SuccessRead /\ \E q \in Polls : q > last.poll /\ polls[q].outcome = "applied") =>
        LET sd == last.stateData[1] IN
        /\ lastApplied.poll = last.poll
        /\ data.hasProject = sd.has_project
        /\ data.project = sd.project
        /\ data.projects = ListOr(last.projectsData[1].data)
        /\ data.systemStatus = (IF last.healthRes[1].ok THEN "online" ELSE "offline")
        /\ ActivitiesFrom(data, sd)

\* C7 happens: poll 1 started first, poll 2 started while it was in flight and
\* updated the view model, then poll 1 finished and replaced what poll 2 had set
C7_Witness ==
    /\ last.poll = 1
    /\ last.outcome = "applied"
    /\ polls[2].outcome = "applied"
    /\ lastApplied.poll = 1
    /\ data.project = last.stateData[1].project
    /\ data.project # last.before.project
    /\ data.systemStatus # last.before.systemStatus

\* C12: after a poll that updates the view model, activities is the features
\* list of the /dashboard-state body in reverse order, one activity per feature:
\* request is the feature text, filesChanged the number of its files (0 without
\* a files list), agents is ["Orchestrator"], safetyChecks is ["Verified"],
\* status is success and id is the position of the feature in the body. A body
\* without a features list gives no activities.
C12_ActivitiesFromFeatures ==
    SuccessRead =>
        LET fs == ListOr(last.stateData[1].features)
            n == Len(fs)
        IN
        /\ Len(data.activities) = n
        /\ last.stateData[1].features = None => data.activities = <<>>
        /\ \A k \in 1..n :
              LET a == data.activities[k]
                  f == fs[n + 1 - k]
              IN
              /\ a.request = f.feature
              /\ a.filesChanged = (IF f.files = None THEN 0 ELSE Len(f.files[1]))
              /\ a.agents = <<"Orchestrator">>
              /\ a.safetyChecks = <<"Verified">>
              /\ a.status = "success"
              /\ a.id = n - k

\* C12 happens: a body with two features, the second without files, was turned
\* into two activities, the second feature first
C12_Witness ==
    /\ last.outcome = "applied"
    /\ Len(data.activities) = 2
    /\ data.activities[1].request = "Fix bug"
    /\ data.activities[1].filesChanged = 0
    /\ data.activities[1].id = 1
    /\ data.activities[2].request = "Add auth"
    /\ data.activities[2].filesChanged = 2
    /\ data.activities[2].id = 0

(***************************************************************************)
(* Properties of the pipeline (checked under CtxSpec)                      *)
(***************************************************************************)
\* TaskPipeline has rendered a task
Rendered == pipeline # None /\ pipeline[1].status # "none"

\* the position of a status in the ordered stage list, -1 for failed
StageTable(status) ==
    CASE status = "received" -> 0
      [] status = "analyzing" -> 1
      [] status = "implementing" -> 2
      [] status = "patching" -> 3
      [] status = "verifying" -> 4
      [] status = "completed" -> 5
      [] status = "failed" -> -1

\* C8: stageIndex maps received, analyzing, implementing, patching, verifying,
\* completed to 0..5 in this order and failed to -1; every one of the 7 statuses
\* has an index and the indexes of the six stages differ from one another.
C8_StageIndexTable ==
    Rendered =>
        /\ pipeline[1].status \in TaskStatus
        /\ pipeline[1].currentStage = StageTable(pipeline[1].status)
        /\ pipeline[1].currentStage \in -1..5
        /\ \A s \in TaskStatus \ {"failed", pipeline[1].status} :
              stageIndex(s) # pipeline[1].currentStage

\* C8 happens: the pipeline was rendered for a completed task
C8_Witness ==
    /\ Rendered
    /\ pipeline[1].status = "completed"
    /\ pipeline[1].currentStage = 5

\* C9: for a task that has not failed and has stage index i, exactly the stages
\* before i are drawn completed, exactly stage i is drawn current and exactly
\* the stages after i are drawn pending; each of the 6 stages is in one class
\* only and one stage is current.
C9_StageClasses ==
    (Rendered /\ pipeline[1].status # "failed") =>
        LET i == pipeline[1].currentStage
            v == pipeline[1].stageViews
        IN
        /\ Len(v) = 6
        /\ \A k \in 0..5 :
              /\ v[k + 1].isCompleted <=> k < i
              /\ v[k + 1].isCurrent <=> k = i
              /\ v[k + 1].isPending <=> k > i
              /\ Cardinality({c \in {"completed", "current", "pending"} :
                    \/ c = "completed" /\ v[k + 1].isCompleted
                    \/ c = "current" /\ v[k + 1].isCurrent
                    \/ c = "pending" /\ v[k + 1].isPending}) = 1
        /\ Cardinality({k \in 0..5 : v[k + 1].isCurrent}) = 1

\* C9 happens: the pipeline was rendered for a task in patching: three stages
\* completed, the fourth current, two pending
C9_Witness ==
    /\ Rendered
    /\ pipeline[1].status = "patching"
    /\ pipeline[1].stageViews[3].isCompleted
    /\ pipeline[1].stageViews[4].isCurrent
    /\ pipeline[1].stageViews[5].isPending

\* C10: for a failed task the pipeline draws an error marker on a stage, and
\* draws no stage completed or current.
C10_FailedShowsErrorMarker ==
    (Rendered /\ pipeline[1].status = "failed") =>
        /\ \E k \in 1..Len(pipeline[1].stageViews) : pipeline[1].stageViews[k].errorMarker
        /\ \A k \in 1..Len(pipeline[1].stageViews) :
              /\ ~pipeline[1].stageViews[k].isCompleted
              /\ ~pipeline[1].stageViews[k].isCurrent

\* C11: the fill of the progress line is within 0..100 for each of the 7
\* statuses, 0 for received and for failed, 100 for completed, and grows
\* strictly along received, analyzing, implementing, patching, verifying,
\* completed.
C11_ProgressFill ==
    Rendered =>
        LET st == pipeline[1].status
            fill == pipeline[1].fill
        IN
        /\ fill \in 0..100
        /\ st \in {"received", "failed"} => fill = 0
        /\ st = "completed" => fill = 100
        /\ st # "failed" => fill = 20 * StageTable(st)
        /\ \A s \in TaskStatus \ {"failed"} :
              (st # "failed" /\ StageTable(s) > StageTable(st)) =>
                 progressFill(stageIndex(s)) > fill

\* C11 happens: the pipeline was rendered for a task in verifying, the line
\* filled to 80 percent
C11_Witness ==
    /\ Rendered
    /\ pipeline[1].status = "verifying"
    /\ pipeline[1].fill = 80

(***************************************************************************)
(* Properties of the agent controls (checked under SimSpec and RetrySpec)  *)
(***************************************************************************)
\* the fields of an agent other than those in `but` are the same in a and b
SameBut(a, b, but) == \A fld \in (DOMAIN a) \ but : a[fld] = b[fld]

\* no request goes to the backend in a step
NoRequest == UNCHANGED <<polls, calls>>

\* C13: for every agent id, an even number of calls of toggleAgentEnabled(id)
\* leaves the enabled flag of that agent at its original value and an odd
\* number leaves it flipped, so two calls return the flag to where it was,
\* whatever simulation ticks, calls of retryAgent and toggles of other agents
\* ran in between.
C13_ToggleTwiceRoundTrip ==
    \A k \in 1..Len(agents) :
        LET n == toggleCount[agents[k].id] IN
        /\ n % 2 = 0 => agents[k].enabled = mockAgents[k].enabled
        /\ n % 2 = 1 => agents[k].enabled = ~mockAgents[k].enabled

\* C13 happens: agent 2 was toggled twice and is enabled again, while the
\* simulation ticked (its token usage moved) and agent 3 was toggled once
C13_Witness ==
    /\ toggleCount["2"] = 2
    /\ agents[2].enabled
    /\ agents[2].tokenUsage > mockAgents[2].tokenUsage
    /\ toggleCount["3"] = 1
    /\ ~agents[3].enabled
    /\ lastOp = [op |-> "toggleAgentEnabled", id |-> "2"]

\* C14: a call of toggleAgentEnabled(id) negates the enabled flag of the agent
\* whose id matches and changes nothing else: the other fields of that agent,
\* the other agents, tasks, activeProject, logs, fileChanges and metrics stay,
\* no request is issued, and with an id that matches no agent the agents stay
\* as they are.
C14_ToggleFrame ==
    [][toggleCount' # toggleCount =>
        LET id == lastOp'.id IN
        /\ lastOp'.op = "toggleAgentEnabled"
        /\ Len(agents') = Len(agents)
        /\ \A k \in 1..Len(agents) :
              IF agents[k].id = id
              THEN /\ agents'[k].enabled = ~agents[k].enabled
                   /\ SameBut(agents'[k], agents[k], {"enabled"})
              ELSE agents'[k] = agents[k]
        /\ (\A k \in 1..Len(agents) : agents[k].id # id) => agents' = agents
        /\ UNCHANGED <<tasks, activeProject, logs, fileChanges, metrics>>
        /\ NoRequest
    ]_vars

\* C14 happens: agent 3 was just switched off after the simulation had ticked,
\* and agent 2 is untouched
C14_Witness ==
    /\ lastOp = [op |-> "toggleAgentEnabled", id |-> "3"]
    /\ toggleCount["3"] = 1
    /\ ~agents[3].enabled
    /\ SameBut(agents[3], mockAgents[3], {"enabled"})
    /\ toggleCount["2"] = 0
    /\ agents[2].enabled
    /\ simTicks > 0

\* C15: a call of retryAgent(id) changes the state only when the agent with
\* that id is failed: it then sets that agent's status to working and its
\* currentAction to "Retrying..." and nothing else. For an agent that is idle,
\* working or waiting, and for an unknown id, the state stays as it is, so a
\* second retryAgent(id) right after the first changes nothing. No request is
\* issued.
C15_RetryFrame ==
    [][lastOp'.op = "retryAgent" =>
        LET id == lastOp'.id IN
        /\ Len(agents') = Len(agents)
        /\ \A k \in 1..Len(agents) :
              IF agents[k].id = id /\ agents[k].status = "failed"
              THEN /\ agents'[k].status = "working"
                   /\ agents'[k].currentAction = "Retrying..."
                   /\ SameBut(agents'[k], agents[k], {"status", "currentAction"})
              ELSE agents'[k] = agents[k]
        /\ (\A k \in 1..Len(agents) : agents[k].id = id => agents[k].status # "failed")
              => agents' = agents
        /\ retried(agents', id) = agents'
        /\ UNCHANGED <<tasks, activeProject, logs, fileChanges, metrics, toggleCount>>
        /\ NoRequest
    ]_vars

\* C15 happens: the failed agent 1 was just retried while agent 2 is still
\* failed
C15_Witness ==
    /\ lastOp = [op |-> "retryAgent", id |-> "1"]
    /\ agents[1].status = "working"
    /\ agents[1].currentAction = "Retrying..."
    /\ SameBut(agents[1], mockAgents[1], {"status", "currentAction"})
    /\ agents[2].status = "failed"

(***************************************************************************)
(* Properties of the backend actions (checked under ActSpec)               *)
(***************************************************************************)
\* the calls of fetchState made by call c of a handler
PollsBy(c) == {p \in Polls : polls[p].by = ByAction(c)}

\* call c has ended in a failure: a response that is not a success, or a
\* rejected request
Failed(cs, c) == cs[c].st = "done" /\ cs[c].outcome \in {"error", "network"}

\* C16: for each call of a backend action (set-project, analyze,
\* build-and-save), fetchState has been called by it exactly once when its
\* response has arrived with status success, and not at all before that: not
\* while the request is in flight, and not after another response.
C16_SuccessRepollsOnce ==
    \A c \in Calls :
        Cardinality(PollsBy(c)) =
            IF calls[c].st = "done" /\ calls[c].outcome = "success" THEN 1 ELSE 0

\* C16 happens: the analyze call has got its success response and started poll
\* 2, while a build-and-save call is in flight and has started none
C16_Witness ==
    /\ calls[1] = [st |-> "done", kind |-> "analyze", outcome |-> "success"]
    /\ PollsBy(1) = {2}
    /\ polls[1].by = ByMount
    /\ calls[2] = [st |-> "inflight", kind |-> "build-and-save", outcome |-> "none"]
    /\ PollsBy(2) = {}

\* C17: when the request of a backend action is rejected or its response has a
\* status other than success, the handler shows one alert (the message of the
\* body, or the text of its catch block), starts no poll, and the step in which
\* it ends changes neither the view model nor loading nor error.
C17_FailureAlertsOnly ==
    /\ [](\A c \in Calls : Failed(calls, c) =>
            /\ PollsBy(c) = {}
            /\ Cardinality({a \in alerts : a.call = c}) = 1
            /\ \A a \in alerts : a.call = c =>
                   IF calls[c].outcome = "network"
                   THEN a.text \in {<<"Failed to set project">>,
                                     <<"Failed to connect to backend">>}
                   ELSE a.text[1] = "Error: ")
    /\ [][\A c \in Calls : (calls[c].st = "inflight" /\ Failed(calls', c)) =>
            UNCHANGED <<data, loading, error, polls, last, lastApplied, timer>>]_vars

\* C17 happens: a set-project call was rejected and an analyze call got an error
\* body; both alerted, the only poll is the one of the mount, and it has ended
C17_Witness ==
    /\ calls[1] = [st |-> "done", kind |-> "set-project", outcome |-> "network"]
    /\ [call |-> 1, text |-> <<"Failed to set project">>] \in alerts
    /\ calls[2] = [st |-> "done", kind |-> "analyze", outcome |-> "error"]
    /\ [call |-> 2, text |-> <<"Error: ", "No project selected">>] \in alerts
    /\ polls[1].st = "done"
    /\ polls[2].st = "idle"
    /\ data = InitData

(***************************************************************************)
(* Properties of the Logs page (checked under LogsSpec)                    *)
(***************************************************************************)
\* the positions of the entries of severity sev in a log list
SeverityIndexes(ls, sev) == {k \in 1..Len(ls) : ls[k].severity = sev}

\* C18: for every log list and every filter value, the Logs page draws the
\* full list unchanged under 'all' and, under a severity, exactly the entries
\* of that severity in their original order; the four counts on the severity
\* buttons are the numbers of entries of each severity and sum to the length
\* of the full list.
C18_LogFilter ==
    LET out == logsPage.filteredLogs
        idx == SeverityIndexes(logs, logsPage.filter)
    IN
    /\ logsPage.filter = "all" => out = logs
    /\ logsPage.filter # "all" =>
          /\ Len(out) = Cardinality(idx)
          /\ \A i \in 1..Len(out) :
                out[i] = logs[CHOOSE k \in idx : Cardinality({j \in idx : j <= k}) = i]
    /\ \A sev \in LogSeverity :
          logsPage.counts[sev] = Cardinality(SeverityIndexes(logs, sev))
    /\ logsPage.counts["info"] + logsPage.counts["warning"] + logsPage.counts["error"]
          + logsPage.counts["debug"] = Len(logs)

\* C18 happens: the mock logs filtered by info give l1, l2, l4
C18_Witness ==
    /\ logs = mockLogs
    /\ logsPage.filter = "info"
    /\ Len(logsPage.filteredLogs) = 3
    /\ logsPage.filteredLogs[2].id = "l2"
    /\ logsPage.filteredLogs[3].id = "l4"
    /\ logsPage.counts["warning"] = 1

(***************************************************************************)
(* Properties of the timers (checked under LifeSpec and TeardownSpec)      *)
(***************************************************************************)
\* the calls of fetchState made by the mount (src = "mount") or by the interval
\* (src = "tick")
StartedBy(src) == {p \in Polls : polls[p].by.src = src}

\* C19: the mount starts one poll at once and every firing of the 5 s interval
\* starts one more; before the mount there is no poll; after the teardown the
\* interval is cleared and the timer starts no poll. The 2 s simulation
\* interval of the provider likewise fires only between its mount and its
\* teardown, after which it is cleared.
C19_PollingLifecycle ==
    /\ [](/\ Cardinality(StartedBy("mount")) = IF mounted = "no" THEN 0 ELSE 1
          /\ mounted = "no" => StartedBy("tick") = {} /\ timer = "unset"
          /\ mounted = "yes" => timer = "running"
          /\ mounted = "torn" => timer = "cleared"
          /\ provider = "no" => simTicks = 0 /\ simTimer = "unset"
          /\ provider = "yes" => simTimer = "running"
          /\ provider = "torn" => simTimer = "cleared")
    /\ [][/\ mounted = "torn" =>
                /\ mounted' = "torn"
                /\ StartedBy("tick")' = StartedBy("tick")
                /\ StartedBy("mount")' = StartedBy("mount")
          /\ StartedBy("tick")' # StartedBy("tick") =>
                /\ mounted = "yes"
                /\ StartedBy("tick") \subseteq StartedBy("tick")'
                /\ Cardinality(StartedBy("tick")') = Cardinality(StartedBy("tick")) + 1
          /\ provider = "torn" => provider' = "torn" /\ simTicks' = simTicks /\ agents' = agents
          /\ simTicks' # simTicks => provider = "yes" /\ simTicks' = simTicks + 1]_vars

\* C19 happens: both components are torn down after the mount poll and one tick
\* poll, and after one firing of the simulation
C19_Witness ==
    /\ mounted = "torn"
    /\ timer = "cleared"
    /\ StartedBy("mount") = {1}
    /\ StartedBy("tick") = {2}
    /\ provider = "torn"
    /\ simTimer = "cleared"
    /\ simTicks = 1

\* C20: the teardown aborts no call of fetchState: the calls in flight stay in
\* flight, and a call whose bodies are read after the teardown applies its
\* setData exactly as it would have before.
C20_NoUnmountGuard ==
    /\ []((last.torn /\ SuccessRead) =>
            data = fetchedView(last.before, last.stateData[1], last.agentsData[1],
                               last.projectsData[1], last.healthRes[1]))
    /\ [][(mounted = "yes" /\ mounted' = "torn") => polls' = polls]_vars

\* C20 happens: the poll of the mount finished after the teardown and replaced
\* the initial view model
C20_Witness ==
    /\ mounted = "torn"
    /\ last.torn
    /\ last.poll = 1
    /\ last.outcome = "applied"
    /\ last.before = InitData
    /\ data.hasProject
    /\ data.systemStatus = "online"

(***************************************************************************)
(* Properties of failed polls and of the render (checked under Spec)       *)
(***************************************************************************)
\* a poll has ended in the catch block
SomeFailed == \E q \in Polls : polls[q].outcome = "failed"

\* C21: a poll that fails starts no request and leaves the polling interval as
\* it is: in the step in which a poll fails no other poll changes, no handler
\* call changes and the timer stays; every poll was started by the mount, by
\* the interval or by a backend action; and with failed polls behind it the
\* interval is still running and its next firing starts a poll.
C21_FailedPollStartsNothing ==
    /\ [](/\ \A p \in Polls : polls[p].st # "idle" =>
                  polls[p].by.src \in {"mount", "tick", "action"}
          /\ (SomeFailed /\ \E p \in Polls : polls[p].st = "idle") =>
                  timer = "running" /\ ENABLED Tick)
    /\ [][\A p \in Polls :
            (polls[p].st = "inflight" /\ polls'[p].outcome = "failed") =>
                /\ timer' = timer
                /\ calls' = calls
                /\ \A q \in Polls \ {p} : polls'[q] = polls[q]]_vars

\* C21 happens: the poll of the mount has failed and the interval has started
\* another poll, which is in flight
C21_Witness ==
    /\ last.poll = 1
    /\ last.outcome = "failed"
    /\ polls[1].by = ByMount
    /\ polls[2].by = ByTick
    /\ polls[2].st = "inflight"
    /\ timer = "running"

\* C22: after a poll has failed with a network error the render returns the
\* full-screen connection error, whatever the view model holds.
C22_FailureShowsErrorView ==
    (last.outcome = "failed" /\ last.cause \in JsonRequests) =>
        View(data, loading, error) = "error"

\* C23: once a poll has applied its update after an earlier poll failed, the
\* render no longer returns the connection error but the dashboard, with or
\* without an active project.
C23_SuccessLeavesErrorView ==
    (SomeFailed /\ last.outcome = "applied") => View(data, loading, error) = "dashboard"

\* C28: once a poll has completed, whatever its outcome, loading is false.
C28_LoadingEndsWithFirstPoll ==
    last.poll # 0 => loading = Some(FALSE)

(***************************************************************************)
(* Properties of the simulation and of the agent statuses                  *)
(* (checked under SimSpec and OpsSpec)                                     *)
(***************************************************************************)
\* C25: a firing of the simulation interval changes only tokenUsage and
\* lastResponseTime of the working agents: the token usage of a working agent
\* grows by 0 to 49, every other field of it stays, the agents that are not
\* working stay as they are, and so do the number and order of the agents. The
\* enabled flag plays no part: the updater gives a working mock agent that is
\* switched off the same tokens and response time as when it is on.
C25_TickFrame ==
    /\ \A k \in Working(agents) :
          \A inc \in [Working(agents) -> TokenIncrements],
             rt \in [Working(agents) -> ResponseTimes] :
             simulated([agents EXCEPT ![k].enabled = FALSE], inc, rt)[k] =
                [simulated(agents, inc, rt)[k] EXCEPT !.enabled = FALSE]
    /\ [][simTicks' # simTicks =>
            /\ Len(agents') = Len(agents)
            /\ \A k \in 1..Len(agents) :
                  IF agents[k].status = "working"
                  THEN /\ agents'[k].tokenUsage - agents[k].tokenUsage \in 0..49
                       /\ SameBut(agents'[k], agents[k], {"tokenUsage", "lastResponseTime"})
                  ELSE agents'[k] = agents[k]
            /\ UNCHANGED <<tasks, activeProject, logs, fileChanges, metrics, toggleCount>>
       ]_vars

\* C25 happens: the only firing so far came after agent 2 was switched off and
\* gave it 49 tokens, while the waiting agent 3 is as it was
C25_Witness ==
    /\ simTicks = 1
    /\ lastOp.op = "tick"
    /\ toggleCount["2"] = 1
    /\ ~agents[2].enabled
    /\ agents[2].tokenUsage = mockAgents[2].tokenUsage + 49
    /\ agents[3] = mockAgents[3]

\* C26: no operation of the provider sets a status to failed and the only
\* status change an updater makes is failed -> working, over any agent list; so
\* from the mock agents, none of which is failed, every agent keeps its
\* initial status and retryAgent leaves the agents as they are.
C26_StatusNeverChanges ==
    /\ \A ags \in AgentLists, id \in AgentIds, k \in 1..Len(mockAgents) :
          /\ toggled(ags, id)[k].status = ags[k].status
          /\ retried(ags, id)[k].status # ags[k].status =>
                 ags[k].status = "failed" /\ retried(ags, id)[k].status = "working"
          /\ \A inc \in [Working(ags) -> {49}], rt \in [Working(ags) -> {19}] :
                 simulated(ags, inc, rt)[k].status = ags[k].status
    /\ [](\A k \in 1..Len(agents) :
             agents[k].status = mockAgents[k].status /\ agents[k].status # "failed")
    /\ [][/\ lastOp'.op = "retryAgent" => agents' = agents
          /\ lastOp'.op \in {"startTask", "pauseTask", "abortTask", "setActiveProject"} =>
                agents' = agents]_vars

\* C26 happens: the working agent 2 was just retried after a firing of the
\* simulation, a toggle of agent 3 and a change of the active project
C26_Witness ==
    /\ lastOp = [op |-> "retryAgent", id |-> "2"]
    /\ simTicks > 0
    /\ toggleCount["3"] = 1
    /\ activeProject[1].activeTask = None
    /\ agents[2].status = "working"
    /\ agents[2].currentAction = mockAgents[2].currentAction

(***************************************************************************)
(* Properties of lastAction (checked under ActivitySpec)                   *)
(***************************************************************************)
\* C27: after a poll that read a /dashboard-state body of status success,
\* lastAction is "Never" when the body has no features, and otherwise the
\* timestamp of the last feature of the list ("Just now" when it has none),
\* which is the timestamp of the first activity shown; after a poll that
\* failed or read another status, lastAction is what it was before.
C27_LastAction ==
    /\ SuccessRead =>
          LET fs == ListOr(last.stateData[1].features) IN
          IF Len(fs) = 0 THEN data.lastAction = "Never"
          ELSE /\ data.lastAction = data.activities[1].timestamp
               /\ data.lastAction = IF fs[Len(fs)].timestamp = None THEN "Just now"
                                     ELSE fs[Len(fs)].timestamp[1]
    /\ (last.poll # 0 /\ ~SuccessRead) => data.lastAction = last.before.lastAction

\* C27 happens: a poll whose last feature has a timestamp replaced the
\* "Just now" of an earlier poll
C27_Witness ==
    /\ SuccessRead
    /\ last.before.lastAction = "Just now"
    /\ last.stateData[1] = StateRecent
    /\ data.lastAction = "2m ago"

(***************************************************************************)
(* Properties of the login demo                                            *)
(* (checked under ControllerSpec, FormSpec and LoginSpec)                  *)
(***************************************************************************)
\* the body carries no email or no password
Missing(b) == ~Truthy(b.email) \/ ~Truthy(b.password)

\* C24: the login controller of either test project answers a request with
\* exactly one response: 400 when email or password is missing, 500 when the
\* lookup or the comparison throws, 401 when no user has the email or the
\* password does not match, and otherwise 200 with a token; it issues a token
\* only for an existing user whose password matched.
C24_LoginStatusMapping ==
    answered.by # "none" =>
        LET b == answered.body
            user == FindOne(b.email)
            r == answered.responses
        IN
        /\ Len(r) = 1
        /\ r[1].status =
              IF Missing(b) THEN 400
              ELSE IF answered.lookup = "throws"
                      \/ (user # NoUser /\ answered.compare = "throws") THEN 500
              ELSE IF user = NoUser \/ b.password[1] # user.password THEN 401
              ELSE 200
        /\ r[1].token # None =>
              /\ r[1].status = 200
              /\ ~Missing(b)
              /\ user # NoUser
              /\ b.password[1] = user.password

\* C29: the token item of local storage changes only in the step in which a
\* form reads a 2xx response, and becomes the token of that response; when the
\* form reads a 400, 401 or 500 response or a network error, local storage
\* stays as it is and the error message of the form is set.
C29_TokenOnlyAfterSuccess ==
    [][/\ localStorage' # localStorage =>
            /\ reply # None
            /\ ~reply[1].network
            /\ reply[1].response.status \in 200..299
            /\ localStorage' = reply[1].response.token
       /\ (reply # None /\ reply' = None
             /\ (reply[1].network \/ reply[1].response.status \in {400, 401, 500})) =>
            /\ localStorage' = localStorage
            /\ form'.error # ""
    ]_vars

\* C29 happens: of two submissions of the Login form one was refused and one
\* succeeded: the error is set and the token is stored
C29_Witness ==
    /\ site = "test"
    /\ logins = 2
    /\ reply = None
    /\ request = None
    /\ localStorage = Some(Token(FindOne(Some("ann@x.io"))))
    /\ form.error = "Invalid email or password"

\* C30: when LoginForm is submitted with the email of an existing user and the
\* matching password, and neither the lookup nor the comparison throws, the
\* login controller of Neuron-Core/testproject answers 200 with a token, and
\* once the form has read the response the token is in local storage.
C30_LoginEndToEnd ==
    (/\ site = "core"
     /\ answered.by = "form"
     /\ answered.typed = [email |-> "ann@x.io", password |-> "secret1"]
     /\ answered.lookup = "ok"
     /\ answered.compare = "ok") =>
        /\ answered.responses[1].status = 200
        /\ answered.responses[1].token # None
        /\ (reply = None /\ request = None) => localStorage = answered.responses[1].token
====
